---------------------------- MODULE Spec2Model ----------------------------
(***************************************************************************)
(* Model of codetypo-lsp: the shared BackendState (workspace folders and   *)
(* the matchit route table of codetypo Instances) behind one Mutex, the    *)
(* handlers that rebuild and read it, and the check pipeline (exclude      *)
(* matcher, ignore blocks, AccumulatePosition, diagnostic translation).    *)
(*                                                                         *)
(* Paths are sequences of atoms: an atom is a chunk of bytes ("/", "a",    *)
(* "codetypo.toml", ...) no one of which is a prefix of another, so prefix *)
(* matching on atoms is prefix matching on the bytes.  Document buffers    *)
(* are sequences of UTF-8 bytes.                                           *)
(***************************************************************************)
EXTENDS Integers, Sequences, FiniteSets, TLC

VARIABLES
    initialized,        \* the client has sent initialize
    severity,           \* BackendState.severity
    config,             \* BackendState.config
    workspace_folders,  \* BackendState.workspace_folders
    router,             \* BackendState.router: set of [route, value]
    mutex,              \* Backend.state Mutex: [holder, poisoned]
    pc,                 \* position of each handler task
    local,              \* locals of the handler a task runs
    last,               \* outcome of the handler that finished last
    router_at_call,     \* route table when the running rebuild was called
    rebuilds,           \* number of update_router calls so far
    buffer,             \* AccumulatePosition harness: the document bytes
    chars,              \* AccumulatePosition harness: the document characters
    accum,              \* AccumulatePosition harness: the accumulator
    answer              \* AccumulatePosition harness: the last query and its result

state_vars == <<initialized, severity, config, workspace_folders, router, mutex,
                pc, local, last, router_at_call, rebuilds>>
pos_vars == <<buffer, chars, accum, answer>>
vars == <<initialized, severity, config, workspace_folders, router, mutex,
          pc, local, last, router_at_call, rebuilds,
          buffer, chars, accum, answer>>

-----------------------------------------------------------------------------
(* Bounds of the model *)

MaxFolders == 3
MaxAdded == 1
MaxRemoved == 1
MaxRebuilds == 3
MaxChars == 3

Tasks == {1, 2}
NoTask == 0

-----------------------------------------------------------------------------
(* Sequences helpers *)

IsPrefix(p, s) == Len(p) <= Len(s) /\ SubSeq(s, 1, Len(p)) = p

SeqsUpTo(S, n) == UNION {[1..k -> S] : k \in 0..n}

Max(S) == CHOOSE x \in S : \A y \in S : y <= x

-----------------------------------------------------------------------------
(* URIs, workspace folders and the file system the server runs on *)

Uri(scheme, path) == [scheme |-> scheme, path |-> path]

\* Url::to_file_path: only a file: URI converts; the result is its path.
CanConvert(uri) == uri.scheme = "file"
ToFilePath(uri) == uri.path

\* url_path_sanitised: every ':' of the URI's path becomes "%3A".
RECURSIVE url_path_sanitised_path(_)
url_path_sanitised_path(p) ==
    IF p = <<>> THEN <<>>
    ELSE (IF Head(p) = ":" THEN <<"%3A">> ELSE <<Head(p)>>)
         \o url_path_sanitised_path(Tail(p))

url_path_sanitised(uri) == url_path_sanitised_path(uri.path)

Folder(uri, name) == [uri |-> uri, name |-> name]

FolderA == Folder(Uri("file", <<"/", "a">>), "a")
FolderAB == Folder(Uri("file", <<"/", "a", "/", "b">>), "ab")
FolderB == Folder(Uri("file", <<"/", "b">>), "b")
FolderRemote == Folder(Uri("ssh", <<"/", "a">>), "remote")

FolderPool == {FolderA, FolderAB, FolderB, FolderRemote}

RootDir == <<"/">>

\* codetypo_cli::config::SUPPORTED_FILE_NAMES (basenames, as atom sequences)
SUPPORTED_FILE_NAMES == << <<"codetypo.toml">>, <<".codetypo.toml">> >>

\* The configuration found on disk: ConfigEngine::init_dir fails for a
\* directory whose configuration file is malformed, and the walk policy of
\* a directory carries the extend-exclude patterns of its configuration.
InitDirFails(dir) == dir = <<"/", "b">>

DirExtendExclude(dir) ==
    IF dir = <<"/", "a">> THEN << <<"f">> >>
    ELSE IF dir = <<"/", "a", "/", "b">> THEN << <<"*">> >>
    ELSE <<>>

\* The `config` initialization option: unset, a readable file declaring
\* extend-exclude = ["*"], or a malformed file.
NoConfig == "none"
ConfigPaths == {"star.toml", "bad.toml"}
ConfigFromFileFails(c) == c = "bad.toml"
ConfigExtendExclude(c) == IF c = "star.toml" THEN << <<"*">> >> ELSE <<>>



-----------------------------------------------------------------------------
(* codetypo::Instance and its exclude matcher (ignore::overrides::Override) *)

\* Instance::new fails when the explicit config file cannot be loaded or
\* when the engine cannot be initialised for the directory.
InstanceNewFails(path, cfg) ==
    \/ cfg # NoConfig /\ ConfigFromFileFails(cfg)
    \/ InitDirFails(path)

\* The lines given to the OverrideBuilder, in order: "!" + name for every
\* supported config file name, then "!" + pattern for every extend-exclude
\* pattern of the walk policy (directory configuration, then overrides).
RECURSIVE Bang(_)
Bang(pats) ==
    IF pats = <<>> THEN <<>> ELSE << <<"!">> \o Head(pats) >> \o Bang(Tail(pats))

WalkExtendExclude(path, cfg) ==
    DirExtendExclude(path)
        \o (IF cfg = NoConfig THEN <<>> ELSE ConfigExtendExclude(cfg))

\* Mutant: the supported config file names are not added.
InstanceIgnoresOnlyExtendExclude(path, cfg) == Bang(WalkExtendExclude(path, cfg))

InstanceIgnores(path, cfg) ==
    Bang(SUPPORTED_FILE_NAMES) \o Bang(WalkExtendExclude(path, cfg))

InstanceNew(path, cfg, id) ==
    [id |-> id, dir |-> path, cfg |-> cfg, ignores |-> InstanceIgnores(path, cfg)]

\* The file name of a path: the atoms after its last "/".
RECURSIVE Basename(_)
Basename(path) ==
    IF path = <<>> THEN <<>>
    ELSE IF path[Len(path)] = "/" THEN <<>>
    ELSE Basename(SubSeq(path, 1, Len(path) - 1)) \o <<path[Len(path)]>>

\* A glob without a slash matches a path by its file name; "*" matches any.
GlobMatches(glob, path) ==
    /\ Basename(path) # <<>>
    /\ (glob = <<"*">> \/ glob = Basename(path))

\* An override line: a leading "!" makes the glob an ignore glob, any other
\* line is a whitelist glob.
LineIsIgnore(line) == line # <<>> /\ Head(line) = "!"
LineGlob(line) == IF LineIsIgnore(line) THEN Tail(line) ELSE line

\* Override::matched(path, false): the last line whose glob matches decides;
\* with no matching line a file is ignored when there is a whitelist glob.
OverrideMatched(lines, path) ==
    LET hits == {i \in 1..Len(lines) : GlobMatches(LineGlob(lines[i]), path)}
    IN  IF lines = <<>> THEN "none"
        ELSE IF hits # {}
             THEN (IF LineIsIgnore(lines[Max(hits)]) THEN "ignore" ELSE "whitelist")
        ELSE IF \E i \in 1..Len(lines) : ~LineIsIgnore(lines[i]) THEN "ignore"
        ELSE "none"

IsExcluded(instance, path) == OverrideMatched(instance.ignores, path) = "ignore"

-----------------------------------------------------------------------------
(* matchit::Router restricted to the routes the server inserts:              *)
(* a literal prefix followed by the catch-all parameter {*p}                 *)

CatchAllParam == "{*p}"

RouteOf(prefix) == prefix \o <<"/", CatchAllParam>>
CatchAllRoute == <<"/", CatchAllParam>>
RouteLiteral(route) == SubSeq(route, 1, Len(route) - 1)

\* Router::insert fails when the route is already in the table.
InsertConflicts(r, route) == \E e \in r : e.route = route

\* Mutant: the catch-all parameter may be empty.
RouteMatches_empty_param(route, path) == IsPrefix(RouteLiteral(route), path)

\* A route matches when its literal part is a prefix of the path and the
\* catch-all parameter takes at least one byte of it.
RouteMatches(route, path) ==
    /\ IsPrefix(RouteLiteral(route), path)
    /\ Len(path) > Len(RouteLiteral(route))

\* Router::at: static segments win over the catch-all at every node, so the
\* matching route with the longest literal part is returned.
RouterAt(r, path) ==
    LET hits == {e \in r : RouteMatches(e.route, path)}
    IN  IF hits = {} THEN {}
        ELSE {e \in hits : \A o \in hits : Len(o.route) <= Len(e.route)}

\* RouterExt::insert_instance: [ok, router, made]; `made` counts the
\* Instance constructed, also when the insert then fails.
insert_instance(r, route, path, cfg, id) ==
    IF InstanceNewFails(path, cfg)
    THEN [ok |-> FALSE, router |-> r, made |-> 0]
    ELSE IF InsertConflicts(r, route)
    THEN [ok |-> FALSE, router |-> r, made |-> 1]
    ELSE [ok |-> TRUE,
          router |-> r \cup {[route |-> route, value |-> InstanceNew(path, cfg, id)]},
          made |-> 1]


-----------------------------------------------------------------------------
(* Document text: characters and their UTF-8 bytes *)

NL == 10

\* The UTF-8 encoding of the characters the model's documents are made of.
Utf8(c) ==
    CASE c = "\n" -> <<NL>>
      [] c = " " -> <<32>>
      [] c = "a" -> <<97>>
      [] c = "b" -> <<98>>
      [] c = "c" -> <<99>>
      [] c = "d" -> <<100>>
      [] c = "X" -> <<88>>
      [] c = "Y" -> <<89>>
      [] c = "e_acute" -> <<195, 169>>            \* U+00E9
      [] c = "euro" -> <<226, 130, 172>>          \* U+20AC
      [] c = "grin" -> <<240, 159, 152, 128>>     \* U+1F600

RECURSIVE Encode(_)
Encode(cs) == IF cs = <<>> THEN <<>> ELSE Utf8(Head(cs)) \o Encode(Tail(cs))

\* Length of the UTF-8 sequence a lead byte announces; 0 for a byte that
\* cannot start a sequence.
Utf8SeqLen(b) ==
    IF b < 128 THEN 1
    ELSE IF b >= 194 /\ b <= 223 THEN 2
    ELSE IF b >= 224 /\ b <= 239 THEN 3
    ELSE IF b >= 240 /\ b <= 244 THEN 4
    ELSE 0

IsContinuation(b) == b >= 128 /\ b <= 191

\* Number of continuation bytes at the front of bs, at most n.
RECURSIVE ContinuationRun(_, _)
ContinuationRun(bs, n) ==
    IF n = 0 \/ bs = <<>> \/ ~IsContinuation(Head(bs)) THEN 0
    ELSE 1 + ContinuationRun(Tail(bs), n - 1)

\* Mutant: every decoded character counts as one unit (chars().count()).
RECURSIVE LossyCharCount(_)
LossyCharCount(bs) ==
    IF bs = <<>> THEN 0
    ELSE LET n == Utf8SeqLen(Head(bs))
             k == IF n = 0 THEN 0 ELSE ContinuationRun(Tail(bs), n - 1)
         IN  1 + LossyCharCount(SubSeq(bs, k + 2, Len(bs)))

\* String::from_utf8_lossy(bs).chars().map(char::len_utf16).sum(): a
\* complete sequence is one character, of two UTF-16 units when it has four
\* bytes; an incomplete or invalid sequence decodes to one U+FFFD.
RECURSIVE LossyUtf16Len(_)
LossyUtf16Len(bs) ==
    IF bs = <<>> THEN 0
    ELSE LET n == Utf8SeqLen(Head(bs))
             k == IF n = 0 THEN 0 ELSE ContinuationRun(Tail(bs), n - 1)
         IN  IF n # 0 /\ k = n - 1
             THEN (IF n = 4 THEN 2 ELSE 1) + LossyUtf16Len(SubSeq(bs, n + 1, Len(bs)))
             ELSE 1 + LossyUtf16Len(SubSeq(bs, k + 2, Len(bs)))

\* buf[from..to] of Rust, offsets counted from 0
Slice(buf, from, to) == SubSeq(buf, from + 1, to)

CountNewlines(bs) == Cardinality({i \in 1..Len(bs) : bs[i] = NL})

-----------------------------------------------------------------------------
(* AccumulatePosition *)

AccumulatePositionNew == [line_num |-> 0, line_pos |-> 0, last_offset |-> 0]

\* buffer[0..byte_offset].rfind_byte(b'\n').map(|s| s + 1).unwrap_or(0)
LineStart(buf, byte_offset) ==
    LET nls == {i \in 1..byte_offset : buf[i] = NL}
    IN  IF nls = {} THEN 0 ELSE Max(nls)

\* Mutant: the newlines of the whole prefix are added to the running line.
pos_recount(acc, buf, byte_offset) ==
    IF ~(acc.last_offset <= byte_offset) \/ byte_offset > Len(buf)
    THEN [panic |-> TRUE, acc |-> acc, out |-> <<>>]
    ELSE LET line_num == acc.line_num + CountNewlines(Slice(buf, 0, byte_offset))
             line_pos == LossyUtf16Len(Slice(buf, LineStart(buf, byte_offset),
                                             byte_offset))
         IN  [panic |-> FALSE,
              acc |-> [line_num |-> line_num, line_pos |-> line_pos,
                       last_offset |-> byte_offset],
              out |-> <<line_num, line_pos>>]

\* Mutant: no assertion; an offset before the watermark is answered like
\* any other and moves the watermark back.
pos_unasserted(acc, buf, byte_offset) ==
    IF byte_offset > Len(buf)
    THEN [panic |-> TRUE, acc |-> acc, out |-> <<>>]
    ELSE LET from == IF acc.last_offset <= byte_offset THEN acc.last_offset
                     ELSE byte_offset
             line_num == acc.line_num + CountNewlines(Slice(buf, from, byte_offset))
             line_pos == LossyUtf16Len(Slice(buf, LineStart(buf, byte_offset),
                                             byte_offset))
         IN  [panic |-> FALSE,
              acc |-> [line_num |-> line_num, line_pos |-> line_pos,
                       last_offset |-> byte_offset],
              out |-> <<line_num, line_pos>>]

\* AccumulatePosition::pos: [panic, acc, out].  The assertion (and the
\* slicing of the buffer) panics before any field is written.
pos(acc, buf, byte_offset) ==
    IF ~(acc.last_offset <= byte_offset) \/ byte_offset > Len(buf)
    THEN [panic |-> TRUE, acc |-> acc, out |-> <<>>]
    ELSE LET newlines == CountNewlines(Slice(buf, acc.last_offset, byte_offset))
             line_num == acc.line_num + newlines
             line_start == LineStart(buf, byte_offset)
             line_pos == LossyUtf16Len(Slice(buf, line_start, byte_offset))
         IN  [panic |-> FALSE,
              acc |-> [line_num |-> line_num, line_pos |-> line_pos,
                       last_offset |-> byte_offset],
              out |-> <<line_num, line_pos>>]


-----------------------------------------------------------------------------
(* Ignores: the extend-ignore-re blocks of a document *)

\* An ignore regex of the form  open.*close : [open, close] bytes.
IgnoreRe(open, close) == [open |-> open, close |-> close]

\* The end (exclusive, from 0) of the greedy match of re starting at offset
\* s, or 0 when there is none: '.' does not match a newline.
ReMatchEnd(content, re, s) ==
    LET n == Len(content)
        nls == {i \in (s + 1)..n : content[i] = NL}
        line_end == IF nls = {} THEN n ELSE Max({i \in nls : \A j \in nls : i <= j}) - 1
        closes == {i \in (s + 2)..line_end : content[i] = re.close}
    IN  IF s < n /\ content[s + 1] = re.open /\ closes # {} THEN Max(closes) ELSE 0

\* Regex::find_iter: the leftmost matches, each search resuming at the end
\* of the previous match.
RECURSIVE FindIter(_, _, _)
FindIter(content, re, from) ==
    LET starts == {s \in from..(Len(content) - 1) : ReMatchEnd(content, re, s) # 0}
    IN  IF starts = {} THEN <<>>
        ELSE LET s == CHOOSE x \in starts : \A y \in starts : x <= y
                 e == ReMatchEnd(content, re, s)
             IN  <<[start |-> s, end |-> e]>> \o FindIter(content, re, e)

\* Ignores::new: the ranges of every match of every regex, in that order.
RECURSIVE IgnoresNew(_, _)
IgnoresNew(content, ignores) ==
    IF ignores = <<>> THEN <<>>
    ELSE FindIter(content, Head(ignores), 0) \o IgnoresNew(content, Tail(ignores))

RangeContains(block, x) == block.start <= x /\ x < block.end

\* Mutant: only the last byte of the span is tested.
is_ignored_end_only(blocks, span) ==
    LET end == IF span.end = 0 THEN 0 ELSE span.end - 1
    IN  \E i \in 1..Len(blocks) : RangeContains(blocks[i], end)

\* Mutant: a span is ignored when it overlaps a block.
is_ignored_overlap(blocks, span) ==
    \E i \in 1..Len(blocks) :
        blocks[i].start < span.end /\ span.start < blocks[i].end

\* Ignores::is_ignored
is_ignored(blocks, span) ==
    LET start == span.start
        end == IF span.end = 0 THEN 0 ELSE span.end - 1
    IN  \E i \in 1..Len(blocks) :
            RangeContains(blocks[i], start) \/ RangeContains(blocks[i], end)

-----------------------------------------------------------------------------
(* Typos, policies and the check pipeline *)

\* codetypo::Typo: byte_offset, the length in bytes of the word, and the
\* status with its corrections.
Typo(byte_offset, len, status) ==
    [byte_offset |-> byte_offset, len |-> len, status |-> status]

TypoSpan(typo) == [start |-> typo.byte_offset, end |-> typo.byte_offset + typo.len]

Statuses == {"Invalid", "Corrections", "Valid"}

\* A policy: where it comes from and its extend-ignore-re list.
DefaultPolicy == [source |-> "default", ignore |-> <<>>]

\* ConfigEngine::policy(path) of an Instance: the directory configuration
\* of /a declares the extend-ignore-re  X.*Y .
DirIgnoreRe(dir) == IF dir = <<"/", "a">> THEN <<IgnoreRe(88, 89)>> ELSE <<>>

EnginePolicy(instance, path) ==
    [source |-> instance.id, ignore |-> DirIgnoreRe(instance.dir)]

\* Backend::workspace_policy: [policy, excluded, route, consulted].
\* `route` is the set holding the route entry the router returned (empty
\* when it was not asked or found none); `consulted` tells whether an
\* exclude matcher was asked.
workspace_policy(uri, r) ==
    IF ~CanConvert(uri)
    THEN [some |-> TRUE, policy |-> DefaultPolicy, route |-> {}, consulted |-> FALSE]
    ELSE LET path == ToFilePath(uri)
             found == RouterAt(r, url_path_sanitised(uri))
         IN  IF found = {}
             THEN [some |-> TRUE, policy |-> DefaultPolicy, route |-> {},
                   consulted |-> FALSE]
             ELSE LET e == CHOOSE x \in found : TRUE
                  IN  IF IsExcluded(e.value, path)
                      THEN [some |-> FALSE, policy |-> DefaultPolicy, route |-> found,
                            consulted |-> TRUE]
                      ELSE [some |-> TRUE, policy |-> EnginePolicy(e.value, path),
                            route |-> found, consulted |-> TRUE]

\* The Diagnostic built for a typo at (line_num, line_pos); a Valid status
\* panics.
Translate(typo, line_num, line_pos, sev) ==
    [range |-> [start |-> <<line_num, line_pos>>,
                end |-> <<line_num, line_pos + typo.len>>],
     severity |-> sev,
     message |-> IF typo.status = "Invalid" THEN "is disallowed" ELSE "should be",
     data |-> typo.status = "Corrections",
     byte_offset |-> typo.byte_offset]

\* Mutant: the diagnostics are collected last match first.
RECURSIVE Pipeline_reversed(_, _, _, _, _)
Pipeline_reversed(typos, buf, blocks, acc, sev) ==
    IF typos = <<>>
    THEN [panic |-> "no", diags |-> <<>>, offsets |-> <<>>, acc |-> acc]
    ELSE LET typo == Head(typos)
         IN  IF is_ignored(blocks, TypoSpan(typo))
             THEN Pipeline_reversed(Tail(typos), buf, blocks, acc, sev)
             ELSE LET p == pos(acc, buf, typo.byte_offset)
                      rest == Pipeline_reversed(Tail(typos), buf, blocks, p.acc, sev)
                  IN  IF p.panic
                      THEN [panic |-> "assert", diags |-> <<>>,
                            offsets |-> <<typo.byte_offset>>, acc |-> acc]
                      ELSE IF typo.status = "Valid"
                      THEN [panic |-> "valid", diags |-> <<>>,
                            offsets |-> <<typo.byte_offset>>, acc |-> p.acc]
                      ELSE [panic |-> rest.panic,
                            diags |-> IF rest.panic = "no"
                                      THEN rest.diags
                                           \o <<Translate(typo, p.out[1], p.out[2], sev)>>
                                      ELSE <<>>,
                            offsets |-> <<typo.byte_offset>> \o rest.offsets,
                            acc |-> rest.acc]

\* Mutant: a Valid status is skipped without a diagnostic.
RECURSIVE Pipeline_skip_valid(_, _, _, _, _)
Pipeline_skip_valid(typos, buf, blocks, acc, sev) ==
    IF typos = <<>>
    THEN [panic |-> "no", diags |-> <<>>, offsets |-> <<>>, acc |-> acc]
    ELSE LET typo == Head(typos)
         IN  IF is_ignored(blocks, TypoSpan(typo))
             THEN Pipeline_skip_valid(Tail(typos), buf, blocks, acc, sev)
             ELSE LET p == pos(acc, buf, typo.byte_offset)
                      rest == Pipeline_skip_valid(Tail(typos), buf, blocks, p.acc, sev)
                  IN  IF p.panic
                      THEN [panic |-> "assert", diags |-> <<>>,
                            offsets |-> <<typo.byte_offset>>, acc |-> acc]
                      ELSE [panic |-> rest.panic,
                            diags |-> IF rest.panic # "no" THEN <<>>
                                      ELSE IF typo.status = "Valid" THEN rest.diags
                                      ELSE <<Translate(typo, p.out[1], p.out[2], sev)>>
                                           \o rest.diags,
                            offsets |-> <<typo.byte_offset>> \o rest.offsets,
                            acc |-> rest.acc]

\* check_str and the map/collect of check_text, one typo after the other
\* as the lazy iterator chain runs them: the ignore filter, the position
\* accumulator, the translation.  [panic, diags, offsets, acc]; `offsets`
\* are the offsets given to the accumulator.
RECURSIVE Pipeline(_, _, _, _, _)
Pipeline(typos, buf, blocks, acc, sev) ==
    IF typos = <<>>
    THEN [panic |-> "no", diags |-> <<>>, offsets |-> <<>>, acc |-> acc]
    ELSE LET typo == Head(typos)
         IN  IF is_ignored(blocks, TypoSpan(typo))
             THEN Pipeline(Tail(typos), buf, blocks, acc, sev)
             ELSE LET p == pos(acc, buf, typo.byte_offset)
                  IN  IF p.panic
                      THEN [panic |-> "assert", diags |-> <<>>,
                            offsets |-> <<typo.byte_offset>>, acc |-> acc]
                      ELSE IF typo.status = "Valid"
                      THEN [panic |-> "valid", diags |-> <<>>,
                            offsets |-> <<typo.byte_offset>>, acc |-> p.acc]
                      ELSE LET rest == Pipeline(Tail(typos), buf, blocks, p.acc, sev)
                           IN  [panic |-> rest.panic,
                                diags |-> IF rest.panic = "no"
                                          THEN <<Translate(typo, p.out[1], p.out[2], sev)>>
                                               \o rest.diags
                                          ELSE <<>>,
                                offsets |-> <<typo.byte_offset>> \o rest.offsets,
                                acc |-> rest.acc]

\* Mutant: the document is checked first and an excluded one is emptied
\* after the fact.
check_text_suppress_after(buf, uri, typos, r, sev) ==
    LET wp == workspace_policy(uri, r)
        blocks == IgnoresNew(buf, wp.policy.ignore)
        run == Pipeline(typos, buf, blocks, AccumulatePositionNew, sev)
    IN  [panic |-> run.panic,
         diags |-> IF wp.some THEN run.diags ELSE <<>>,
         wp |-> wp,
         invoked |-> {"policy", "producer"}
                     \cup (IF typos # <<>> THEN {"ignores"} ELSE {})
                     \cup (IF run.offsets # <<>> THEN {"accum"} ELSE {}),
         offsets |-> run.offsets]

\* Mutant: one accumulator serves every check, and an earlier check has
\* left it behind the start of the document.
check_text_shared_accum(buf, uri, typos, r, sev) ==
    LET wp == workspace_policy(uri, r)
        blocks == IgnoresNew(buf, wp.policy.ignore)
        run == Pipeline(typos, buf, blocks,
                        [line_num |-> 0, line_pos |-> 1, last_offset |-> 1], sev)
    IN  IF ~wp.some
        THEN [panic |-> "no", diags |-> <<>>, wp |-> wp, invoked |-> {},
              offsets |-> <<>>]
        ELSE [panic |-> run.panic, diags |-> run.diags, wp |-> wp,
              invoked |-> {"policy", "producer"}
                          \cup (IF typos # <<>> THEN {"ignores"} ELSE {})
                          \cup (IF run.offsets # <<>> THEN {"accum"} ELSE {}),
              offsets |-> run.offsets]

\* Backend::check_text once the state lock is held:
\* [panic, diags, wp, invoked]; `invoked` names the stages that ran.
check_text(buf, uri, typos, r, sev) ==
    LET wp == workspace_policy(uri, r)
    IN  IF ~wp.some
        THEN [panic |-> "no", diags |-> <<>>, wp |-> wp, invoked |-> {},
              offsets |-> <<>>]
        ELSE LET blocks == IgnoresNew(buf, wp.policy.ignore)
                 run == Pipeline(typos, buf, blocks, AccumulatePositionNew, sev)
             IN  [panic |-> run.panic, diags |-> run.diags, wp |-> wp,
                  invoked |-> {"policy", "producer"}
                              \cup (IF typos # <<>> THEN {"ignores"} ELSE {})
                              \cup (IF run.offsets # <<>> THEN {"accum"} ELSE {}),
                  offsets |-> run.offsets]


-----------------------------------------------------------------------------
(* The server: initial state *)

NoSeverity == "unset"

NoResult == [panic |-> "no", diags |-> <<>>, invoked |-> {}, offsets |-> <<>>,
             wp |-> [some |-> FALSE, policy |-> DefaultPolicy, route |-> {},
                     consulted |-> FALSE]]

IdleLocal == [kind |-> "none", i |-> 0, uri |-> Uri("none", <<>>),
              buf |-> <<>>, typos |-> <<>>, res |-> NoResult]

NoAnswer == [offset |-> 0, panic |-> FALSE, out |-> <<>>]

\* Backend::new: BackendState::default() behind an unlocked Mutex.
StateInit ==
    /\ initialized = FALSE
    /\ severity = NoSeverity
    /\ config = NoConfig
    /\ workspace_folders = <<>>
    /\ router = {}
    /\ mutex = [holder |-> NoTask, poisoned |-> FALSE]
    /\ pc = [t \in Tasks |-> "idle"]
    /\ local = [t \in Tasks |-> IdleLocal]
    /\ last = [kind |-> "new", result |-> "ok"]
    /\ router_at_call = {}
    /\ rebuilds = 0

PosIdle ==
    /\ buffer = <<>>
    /\ chars = <<>>
    /\ accum = AccumulatePositionNew
    /\ answer = NoAnswer

Init == StateInit /\ PosIdle

-----------------------------------------------------------------------------
(* initialize and did_change_workspace_folders *)

\* str::to_lowercase on the values the model's clients send
ToLowercase(v) ==
    CASE v = "Hint" -> "hint"
      [] OTHER -> v

\* The diagnosticSeverity initialization option; an absent or unknown value
\* leaves the severity as it is.
ParseSeverity(v, old) ==
    LET l == ToLowercase(v)
    IN  CASE l = "error" -> "ERROR"
          [] l = "warning" -> "WARNING"
          [] l \in {"information", "info"} -> "INFORMATION"
          [] l = "hint" -> "HINT"
          [] OTHER -> old

Lock(t) == [holder |-> t, poisoned |-> mutex.poisoned]
Unlocked == [holder |-> NoTask, poisoned |-> mutex.poisoned]
Poisoned == [holder |-> NoTask, poisoned |-> TRUE]

\* Mutant: the removed folders stay in the list.
Retain_nothing(fs, removed) == fs

\* Vec::retain(|x| !removed.contains(x))
RECURSIVE Retain(_, _)
Retain(fs, removed) ==
    IF fs = <<>> THEN <<>>
    ELSE (IF Head(fs) \in removed THEN <<>> ELSE <<Head(fs)>>)
         \o Retain(Tail(fs), removed)

\* Mutant: the guard is dropped once the old table is discarded.
UpdateRouterBegin_unlocked(t, kind) ==
    /\ router_at_call' = router
    /\ router' = {}
    /\ rebuilds' = rebuilds + 1
    /\ pc' = [pc EXCEPT ![t] = "update_router"]
    /\ local' = [local EXCEPT ![t] = [IdleLocal EXCEPT !.kind = kind, !.i = 1]]
    /\ mutex' = Unlocked

\* update_router up to its loop: the table is replaced by an empty one.
UpdateRouterBegin(t, kind) ==
    /\ router_at_call' = router
    /\ router' = {}
    /\ rebuilds' = rebuilds + 1
    /\ pc' = [pc EXCEPT ![t] = "update_router"]
    /\ local' = [local EXCEPT ![t] = [IdleLocal EXCEPT !.kind = kind, !.i = 1]]
    /\ mutex' = Lock(t)

\* Backend::initialize: takes the lock, reads the initialization options,
\* then set_workspace_folders.
Initialize(t, sev_opt, cfg_opt, folders) ==
    /\ ~initialized
    /\ pc[t] = "idle"
    /\ mutex.holder = NoTask
    /\ ~mutex.poisoned
    /\ initialized' = TRUE
    /\ severity' = ParseSeverity(sev_opt, severity)
    /\ config' = IF cfg_opt = "absent" THEN config ELSE cfg_opt
    /\ workspace_folders' = folders
    /\ UpdateRouterBegin(t, "initialize")
    /\ UNCHANGED <<last, pos_vars>>

\* Backend::did_change_workspace_folders: takes the lock, then
\* update_workspace_folders; on a poisoned lock the unwrap panics.
DidChangeWorkspaceFolders(t, added, removed) ==
    /\ initialized
    /\ pc[t] = "idle"
    /\ mutex.holder = NoTask
    /\ rebuilds < MaxRebuilds
    /\ Len(workspace_folders) + Len(added) <= MaxFolders
    /\ IF mutex.poisoned
       THEN /\ last' = [kind |-> "did_change_workspace_folders",
                        result |-> "lock_panic"]
            /\ UNCHANGED <<workspace_folders, router, router_at_call, rebuilds, pc,
                           local, mutex>>
       ELSE /\ workspace_folders' = Retain(workspace_folders \o added, removed)
            /\ UpdateRouterBegin(t, "did_change_workspace_folders")
            /\ UNCHANGED last
    /\ UNCHANGED <<initialized, severity, config, pos_vars>>

\* The handler returns: the guard is dropped, an error only logged.
RebuildReturn(t, result) ==
    /\ pc' = [pc EXCEPT ![t] = "idle"]
    /\ local' = [local EXCEPT ![t] = IdleLocal]
    /\ mutex' = Unlocked
    /\ last' = [kind |-> local[t].kind, result |-> result]

\* One turn of update_router's loop over the workspace folders; the first
\* error returns from update_router.
UpdateRouterFolder(t) ==
    /\ pc[t] = "update_router"
    /\ local[t].i <= Len(workspace_folders)
    /\ LET folder == workspace_folders[local[t].i]
           ins == insert_instance(router, RouteOf(url_path_sanitised(folder.uri)),
                                  ToFilePath(folder.uri), config,
                                  <<rebuilds, local[t].i>>)
       IN  IF ~CanConvert(folder.uri)
           THEN RebuildReturn(t, "err") /\ UNCHANGED router
           ELSE IF ~ins.ok
           THEN RebuildReturn(t, "err") /\ UNCHANGED router
           ELSE /\ router' = ins.router
                /\ local' = [local EXCEPT ![t].i = @ + 1]
                /\ UNCHANGED <<pc, mutex, last>>
    /\ UNCHANGED <<initialized, severity, config, workspace_folders, router_at_call,
                   rebuilds, pos_vars>>

\* The catch-all route after the loop, then the handler returns.
UpdateRouterCatchAll(t) ==
    /\ pc[t] = "update_router"
    /\ local[t].i > Len(workspace_folders)
    /\ LET ins == insert_instance(router, CatchAllRoute, RootDir, config,
                                  <<rebuilds, 0>>)
       IN  /\ router' = ins.router
           /\ RebuildReturn(t, IF ins.ok THEN "ok" ELSE "err")
    /\ UNCHANGED <<initialized, severity, config, workspace_folders, router_at_call,
                   rebuilds, pos_vars>>


-----------------------------------------------------------------------------
(* did_open / did_change: report_diagnostics -> check_text *)

FileUri(path) == Uri("file", path)

DocUris ==
    { FileUri(<<"/", "a", "/", "f">>),
      FileUri(<<"/", "a", "/", "d">>),
      FileUri(<<"/", "a", "/", "b", "/", "d">>),
      FileUri(<<"/", "a", "/", "b", "/", "codetypo.toml">>),
      FileUri(<<"/", "a", "b", "/", "d">>),
      FileUri(<<"/", "a">>),
      FileUri(<<"/">>),
      FileUri(<<"/", ".codetypo.toml">>),
      Uri("untitled", <<"Untitled-1">>) }

\* The document "ab\ncd" and what the match producer may yield for it: the
\* words in ascending byte order, each with any status.
ExampleChars == <<"a", "b", "\n", "c", "d">>

ServerTypos ==
    { <<>>,
      <<Typo(0, 2, "Corrections"), Typo(3, 2, "Invalid")>>,
      <<Typo(3, 2, "Valid")>> }

\* check_text takes the lock (the unwrap panics on a poisoned lock) and
\* runs under it up to its result: the collected diagnostics or a panic.
CheckTextOf(t, uri, buf, typos) ==
    /\ initialized
    /\ pc[t] = "idle"
    /\ mutex.holder = NoTask
    /\ IF mutex.poisoned
       THEN /\ last' = [kind |-> "check_text", result |-> "lock_panic",
                        routable |-> RouterAt(router, url_path_sanitised(uri)) # {}
                                         /\ CanConvert(uri),
                        valid_typo |-> \E i \in 1..Len(typos) :
                                           typos[i].status = "Valid"]
            /\ UNCHANGED <<pc, local, mutex>>
       ELSE /\ mutex' = Lock(t)
            /\ pc' = [pc EXCEPT ![t] = "collected"]
            /\ local' = [local EXCEPT ![t] =
                            [IdleLocal EXCEPT
                                !.kind = "check_text", !.uri = uri,
                                !.buf = buf, !.typos = typos,
                                !.res = check_text(buf, uri, typos, router,
                                                   severity)]]
            /\ UNCHANGED last
    /\ UNCHANGED <<initialized, severity, config, workspace_folders, router,
                   router_at_call, rebuilds, pos_vars>>

\* The check of the document "ab\ncd"
CheckText(t, uri, typos) == CheckTextOf(t, uri, Encode(ExampleChars), typos)

\* check_text ends: a return drops the guard and report_diagnostics
\* publishes the list; a panic unwinds through the guard and poisons the
\* Mutex, and nothing is published.
CheckTextReturn(t) ==
    /\ pc[t] = "collected"
    /\ last' = [kind |-> "check_text",
                result |-> IF local[t].res.panic = "no" THEN "ok" ELSE "panic"]
    /\ mutex' = IF local[t].res.panic = "no" THEN Unlocked ELSE Poisoned
    /\ pc' = [pc EXCEPT ![t] = "idle"]
    /\ local' = [local EXCEPT ![t] = IdleLocal]
    /\ UNCHANGED <<initialized, severity, config, workspace_folders, router,
                   router_at_call, rebuilds, pos_vars>>

-----------------------------------------------------------------------------
(* The server *)

\* The initialization options a client sends: diagnosticSeverity and config
InitOptions ==
    { <<"absent", "absent">>, <<"Hint", "star.toml">>, <<"verbose", "bad.toml">> }

\* The folders a notification removes: folders of the list or among the
\* added ones (removing any other folder changes nothing).
RemovedSets(added) ==
    {fs \in SUBSET ({workspace_folders[i] : i \in 1..Len(workspace_folders)}
                      \cup {added[i] : i \in 1..Len(added)}) :
        Cardinality(fs) <= MaxRemoved}

\* The requests and notifications of the clients
InitializeRequest ==
    /\ ~initialized
    /\ \E t \in Tasks, opts \in InitOptions,
          folders \in SeqsUpTo(FolderPool, MaxFolders) :
            Initialize(t, opts[1], opts[2], folders)

DidChangeWorkspaceFoldersNotification ==
    /\ initialized /\ mutex.holder = NoTask /\ rebuilds < MaxRebuilds
    /\ \E t \in Tasks, added \in SeqsUpTo(FolderPool, MaxAdded) :
          \E removed \in RemovedSets(added) :
            DidChangeWorkspaceFolders(t, added, removed)

DidOpenOrChangeNotification ==
    /\ initialized /\ mutex.holder = NoTask
    /\ \E t \in Tasks, uri \in DocUris, typos \in ServerTypos :
            CheckText(t, uri, typos)

Next ==
    \/ InitializeRequest
    \/ DidChangeWorkspaceFoldersNotification
    \/ \E t \in Tasks : UpdateRouterFolder(t)
    \/ \E t \in Tasks : UpdateRouterCatchAll(t)
    \/ DidOpenOrChangeNotification
    \/ \E t \in Tasks : CheckTextReturn(t)

Spec == Init /\ [][Next]_vars

-----------------------------------------------------------------------------
(* AccumulatePosition on its own: one accumulator, one document, any        *)
(* sequence of offsets                                                       *)

Alphabet == {"a", "\n", "e_acute", "grin"}

PosDocs == SeqsUpTo(Alphabet, MaxChars) \cup {ExampleChars}

PosInit ==
    /\ StateInit
    /\ chars \in PosDocs
    /\ buffer = Encode(chars)
    /\ accum = AccumulatePositionNew
    /\ answer = NoAnswer

\* accum.pos(buffer, byte_offset)
PosQuery(byte_offset) ==
    /\ LET p == pos(accum, buffer, byte_offset)
       IN  /\ accum' = p.acc
           /\ answer' = [offset |-> byte_offset, panic |-> p.panic, out |-> p.out]
    /\ UNCHANGED <<buffer, chars, state_vars>>

PosNext == \E byte_offset \in 0..Len(buffer) : PosQuery(byte_offset)

PosSpec == PosInit /\ [][PosNext]_vars

-----------------------------------------------------------------------------
(* The check pipeline on its own: a server initialised with the folder     *)
(* file:///a, one document, any matches the match producer may yield        *)

MaxTypos == 2

PipeAlphabet == {"a", "X", "Y", "\n"}

PipeDocs == SeqsUpTo(PipeAlphabet, MaxChars)

\* The route table update_router builds for the folders [file:///a].
PipeRouter ==
    LET one == insert_instance({}, RouteOf(url_path_sanitised(FolderA.uri)),
                               ToFilePath(FolderA.uri), NoConfig, <<1, 1>>)
    IN  insert_instance(one.router, CatchAllRoute, RootDir, NoConfig, <<1, 0>>).router

\* The state after initialize with workspaceFolders = [file:///a] and no
\* initialization options has returned.
PipeInit ==
    /\ initialized = TRUE
    /\ severity = NoSeverity
    /\ config = NoConfig
    /\ workspace_folders = <<FolderA>>
    /\ router = PipeRouter
    /\ mutex = [holder |-> NoTask, poisoned |-> FALSE]
    /\ pc = [t \in Tasks |-> "idle"]
    /\ local = [t \in Tasks |-> IdleLocal]
    /\ last = [kind |-> "initialize", result |-> "ok"]
    /\ router_at_call = {}
    /\ rebuilds = 1
    /\ chars \in PipeDocs
    /\ buffer = Encode(chars)
    /\ accum = AccumulatePositionNew
    /\ answer = NoAnswer

\* A word of the buffer: a non-empty run of bytes without a newline.
IsWord(buf, from, len) ==
    /\ len >= 1 /\ from + len <= Len(buf)
    /\ \A i \in (from + 1)..(from + len) : buf[i] # NL

\* What codetypo::check_str may yield for the buffer: at most n words in
\* ascending byte order, none overlapping another, each with any status.
RECURSIVE ProducerYields(_, _, _)
ProducerYields(buf, from, n) ==
    IF n = 0 THEN {<<>>}
    ELSE {<<>>} \cup
         UNION { UNION { { <<Typo(o, l, st)>> \o rest :
                              st \in Statuses,
                              rest \in ProducerYields(buf, o + l, n - 1) } :
                         l \in {k \in 1..Len(buf) : IsWord(buf, o, k)} } :
                 o \in from..Len(buf) }

PipeUris ==
    { FileUri(<<"/", "a", "/", "d">>),
      FileUri(<<"/", "a", "b", "/", "d">>),
      Uri("untitled", <<"Untitled-1">>) }

PipeCheckText ==
    /\ initialized /\ mutex.holder = NoTask
    /\ \E typos \in ProducerYields(buffer, 0, MaxTypos) :
          \E t \in Tasks, uri \in PipeUris :
            CheckTextOf(t, uri, buffer, typos)

PipeReturn == \E t \in Tasks : CheckTextReturn(t)

PipeNext == PipeCheckText \/ PipeReturn

PipeSpec == PipeInit /\ [][PipeNext]_vars

-----------------------------------------------------------------------------
(* The check pipeline on documents with characters of more than one byte:  *)
(* the same server, words that begin and end between two characters         *)

WideDocs == SeqsUpTo(Alphabet, MaxChars)

WideInit ==
    /\ initialized = TRUE
    /\ severity = NoSeverity
    /\ config = NoConfig
    /\ workspace_folders = <<FolderA>>
    /\ router = PipeRouter
    /\ mutex = [holder |-> NoTask, poisoned |-> FALSE]
    /\ pc = [t \in Tasks |-> "idle"]
    /\ local = [t \in Tasks |-> IdleLocal]
    /\ last = [kind |-> "initialize", result |-> "ok"]
    /\ router_at_call = {}
    /\ rebuilds = 1
    /\ chars \in WideDocs
    /\ buffer = Encode(chars)
    /\ accum = AccumulatePositionNew
    /\ answer = NoAnswer

\* The byte offsets of a &str at which a character begins or the text ends.
CharBoundaries(cs) == {Len(Encode(SubSeq(cs, 1, k))) : k \in 0..Len(cs)}

\* What codetypo::check_str may yield for a &str: the words of
\* ProducerYields that begin and end on a character boundary.
StrProducerYields(cs, n) ==
    {typos \in ProducerYields(Encode(cs), 0, n) :
        \A i \in 1..Len(typos) :
            /\ typos[i].byte_offset \in CharBoundaries(cs)
            /\ typos[i].byte_offset + typos[i].len \in CharBoundaries(cs)}

WideCheckText ==
    /\ initialized /\ mutex.holder = NoTask
    /\ \E typos \in StrProducerYields(chars, MaxTypos) :
          \E t \in Tasks, uri \in PipeUris :
            CheckTextOf(t, uri, buffer, typos)

WideReturn == \E t \in Tasks : CheckTextReturn(t)

WideNext == WideCheckText \/ WideReturn

WideSpec == WideInit /\ [][WideNext]_vars

-----------------------------------------------------------------------------
(* Ignores on its own: one document, the blocks of a list of ignore        *)
(* regexes, any span                                                        *)

IgnoreXY == IgnoreRe(88, 89)    \* X.*Y
IgnoreAY == IgnoreRe(97, 89)    \* a.*Y

IgnoreLists == {<<>>, <<IgnoreXY>>, <<IgnoreXY, IgnoreAY>>}

NestedChars == <<"a", "X", "Y", "a">>

IgnDocs == SeqsUpTo(PipeAlphabet, MaxChars) \cup {NestedChars}

IgnInit ==
    /\ StateInit
    /\ chars \in IgnDocs
    /\ buffer = Encode(chars)
    /\ accum = AccumulatePositionNew
    /\ answer = NoAnswer

\* Ignores::new(buffer, ignore).is_ignored(start..end)
IgnQuery(ignore, start, end) ==
    /\ LET blocks == IgnoresNew(buffer, ignore)
       IN  answer' = [span |-> [start |-> start, end |-> end],
                      blocks |-> blocks,
                      ignored |-> is_ignored(blocks, [start |-> start, end |-> end])]
    /\ UNCHANGED <<buffer, chars, accum, state_vars>>

IgnNext ==
    \E ignore \in IgnoreLists, start \in 0..Len(buffer) :
        \E end \in start..Len(buffer) : IgnQuery(ignore, start, end)

IgnSpec == IgnInit /\ [][IgnNext]_vars


-----------------------------------------------------------------------------
(* Properties of the route table *)

NoRebuildRunning == \A t \in Tasks : pc[t] # "update_router"

RebuildKinds == {"initialize", "did_change_workspace_folders"}

CatchAllEntries(r) == {e \in r : e.route = CatchAllRoute}

FolderRoute(folder) == RouteOf(url_path_sanitised(folder.uri))

HasRoute(r, folder) == \E e \in r : e.route = FolderRoute(folder)

\* A folder whose route update_router can build on its own.
ValidFolder(folder) ==
    CanConvert(folder.uri) /\ ~InstanceNewFails(ToFilePath(folder.uri), config)

FailingFolders == {i \in 1..Len(workspace_folders) : ~ValidFolder(workspace_folders[i])}

\* C1: when a rebuild of the route table fails, the table after the call is
\* the table before the call: no route removed, added or replaced.
C1_FailedRebuildKeepsTable ==
    (NoRebuildRunning /\ last.kind \in RebuildKinds /\ last.result = "err")
        => router = router_at_call

\* C2: in every state after initialize, whether the rebuilds succeeded or
\* failed, the table holds exactly one catch-all route, so that every file
\* path under the root resolves through the router.
C2_AlwaysOneCatchAll ==
    (initialized /\ NoRebuildRunning)
        => /\ Cardinality(CatchAllEntries(router)) = 1
           /\ \A uri \in DocUris :
                (CanConvert(uri) /\ uri.path # RootDir)
                    => RouterAt(router, url_path_sanitised(uri)) # {}

\* C3: after a rebuild in which one folder of the active list fails (a
\* non-file URI or a failing policy initialisation), every other valid folder
\* of the list, before or after the failing one, has its route in the table,
\* and so does the catch-all.
C3_OtherFoldersStillRouted ==
    (initialized /\ NoRebuildRunning /\ Cardinality(FailingFolders) = 1
       /\ ~InstanceNewFails(RootDir, config))
        => /\ \A i \in 1..Len(workspace_folders) :
                ValidFolder(workspace_folders[i]) => HasRoute(router, workspace_folders[i])
           /\ CatchAllEntries(router) # {}

\* C4: an invariant violation raised during one check aborts only that
\* check: every later check and every later workspace-folder change still
\* acquires the shared backend state and completes normally.
C4_PanicAbortsOnlyThatCheck == last.result # "lock_panic"

\* outer and inner are file folders and inner lies below outer.
Nested(outer, inner) ==
    /\ CanConvert(outer.uri) /\ CanConvert(inner.uri)
    /\ IsPrefix(outer.uri.path \o <<"/">>, inner.uri.path)

Under(uri, folder) ==
    /\ CanConvert(uri) /\ CanConvert(folder.uri)
    /\ IsPrefix(folder.uri.path \o <<"/">>, uri.path)
    /\ Len(uri.path) > Len(folder.uri.path) + 1

ActiveFolders == {workspace_folders[i] : i \in 1..Len(workspace_folders)}

MostSpecific(uri) ==
    {f \in ActiveFolders : Under(uri, f)
        /\ \A g \in ActiveFolders : Under(uri, g) => Len(g.uri.path) <= Len(f.uri.path)}

\* C5: for any two active folders one of which is nested in the other, a
\* document under the inner folder resolves to the inner folder's Instance,
\* never to the outer folder's or the catch-all's, whatever the order in
\* which the folders were added.
C5_InnerFolderWins ==
    \A t \in Tasks :
        pc[t] = "collected" =>
            \A outer \in ActiveFolders, inner \in ActiveFolders :
                (Nested(outer, inner) /\ Under(local[t].uri, inner)
                   /\ inner \in MostSpecific(local[t].uri))
                    => \E e \in local[t].res.wp.route : e.value.dir = inner.uri.path

\* The routing itself: when the routes of both folders are in the table, the
\* inner one is returned.
LongestRouteWhenBothPresent ==
    \A t \in Tasks :
        pc[t] = "collected" =>
            \A outer \in ActiveFolders, inner \in ActiveFolders :
                (Nested(outer, inner) /\ Under(local[t].uri, inner)
                   /\ inner \in MostSpecific(local[t].uri)
                   /\ HasRoute(router, outer) /\ HasRoute(router, inner))
                    => \E e \in local[t].res.wp.route : e.value.dir = inner.uri.path


-----------------------------------------------------------------------------
(* Properties of a check: exclusion and fallback *)

ReservedNames == {SUPPORTED_FILE_NAMES[i] : i \in 1..Len(SUPPORTED_FILE_NAMES)}

HasReservedName(uri) == CanConvert(uri) /\ Basename(ToFilePath(uri)) \in ReservedNames

\* The check of task t has run and holds its result.
Collected(t) == pc[t] = "collected"

\* C6 as stated: a file named like a reserved configuration file is never
\* flagged as excluded by an Instance's exclude matcher, so the check never
\* returns the empty result for it on grounds of exclusion.
C6_ConfigFileNeverExcluded ==
    \A t \in Tasks :
        (Collected(t) /\ HasReservedName(local[t].uri)) => local[t].res.wp.some

\* C6 as amended: a file named like a reserved configuration file is always
\* flagged as excluded by the exclude matcher of the Instance the router
\* resolves it to, whatever the extend-exclude patterns, and the check
\* returns the empty list without checking it; it is checked (with the
\* default policy) only when no Instance is resolved.
C6_ConfigFileAlwaysExcluded ==
    \A t \in Tasks :
        (Collected(t) /\ HasReservedName(local[t].uri)) =>
            LET res == local[t].res
            IN  IF res.wp.route # {}
                THEN /\ \A e \in res.wp.route : IsExcluded(e.value, ToFilePath(local[t].uri))
                     /\ ~res.wp.some
                     /\ res.diags = <<>> /\ res.panic = "no"
                ELSE res.wp.some /\ res.wp.policy = DefaultPolicy

C6_Witness ==
    \E t \in Tasks :
        /\ Collected(t) /\ HasReservedName(local[t].uri)
        /\ local[t].typos # <<>>
        /\ \E e \in local[t].res.wp.route :
              e.route = CatchAllRoute /\ WalkExtendExclude(e.value.dir, e.value.cfg) = <<>>
        /\ ~local[t].res.wp.some

\* C7: when the resolved Instance's exclude matcher flags the document's
\* path, the check returns the empty list at once: no per-file policy is
\* resolved and the match producer, the ignore filter and the position
\* accumulator are not invoked.
C7_ExcludedNeverChecked ==
    \A t \in Tasks :
        (Collected(t)
           /\ \E e \in RouterAt(router, url_path_sanitised(local[t].uri)) :
                 CanConvert(local[t].uri) /\ IsExcluded(e.value, ToFilePath(local[t].uri)))
            => /\ local[t].res.diags = <<>>
               /\ local[t].res.panic = "no"
               /\ local[t].res.invoked = {}
               /\ local[t].res.offsets = <<>>

C7_Witness ==
    \E t \in Tasks :
        /\ Collected(t)
        /\ \E i \in 1..Len(local[t].typos) : local[t].typos[i].status = "Valid"
        /\ \E e \in local[t].res.wp.route :
              IsExcluded(e.value, ToFilePath(local[t].uri))
        /\ local[t].res.invoked = {}
        /\ local[t].res.diags = <<>>

\* The document falls back to the default policy.
NonRoutable(uri, r) == ~CanConvert(uri) \/ RouterAt(r, url_path_sanitised(uri)) = {}

NoValid(typos) == \A i \in 1..Len(typos) : typos[i].status # "Valid"

\* A check of such a document that holds the lock uses the default policy,
\* consults no exclude matcher and collects a list.
FallbackUsesDefaultPolicy ==
    \A t \in Tasks :
        (Collected(t) /\ NonRoutable(local[t].uri, router) /\ NoValid(local[t].typos))
            => /\ local[t].res.panic = "no"
               /\ local[t].res.wp.some
               /\ local[t].res.wp.policy = DefaultPolicy
               /\ ~local[t].res.wp.consulted

\* C8: the check of a document whose location does not convert to a file
\* path, or for which the router finds no route, is not an error: it uses
\* the default policy, consults no exclude matcher and returns a diagnostic
\* list, in every router state.
C8_FallbackReturnsList ==
    /\ FallbackUsesDefaultPolicy
    /\ (last.kind = "check_text" /\ last.result = "lock_panic")
          => (last.routable \/ last.valid_typo)


-----------------------------------------------------------------------------
(* Properties of AccumulatePosition *)

Answered == answer.out # <<>>

\* The line of the last answer is the number of newline bytes before its
\* offset, and the answers for "ab\ncd" are the expected ones.
C9_LineIsNewlinesBefore ==
    Answered =>
        /\ answer.out[1] = CountNewlines(Slice(buffer, 0, answer.offset))
        /\ accum.line_num = answer.out[1]
        /\ (chars = ExampleChars /\ answer.offset = 0) => answer.out = <<0, 0>>
        /\ (chars = ExampleChars /\ answer.offset = 3) => answer.out = <<1, 0>>
        /\ (chars = ExampleChars /\ answer.offset = 5) => answer.out = <<1, 2>>

C9_LinesNeverDecrease == accum'.line_num >= accum.line_num

\* C9: for every document and every non-decreasing sequence of offsets given
\* to one accumulator, the line returned for an offset is the number of
\* newline bytes before that offset, whichever offsets came earlier, and the
\* lines returned never decrease; for "ab\ncd" the offsets 0, 3, 5 give
\* (0,0), (1,0), (1,2).
C9_Lines == [](C9_LineIsNewlinesBefore) /\ [][C9_LinesNeverDecrease]_vars

C9_Witness ==
    /\ chars = ExampleChars
    /\ answer.offset = 5 /\ answer.out = <<1, 2>>

\* The characters of the document in front of a byte offset, when the
\* offset falls between two characters.
CharsBefore(cs, byte_offset) ==
    {k \in 0..Len(cs) : Len(Encode(SubSeq(cs, 1, k))) = byte_offset}

\* UTF-16 code units of a character: two outside the Basic Multilingual
\* Plane (U+1F600), one inside it.
Utf16Units(c) == IF c = "grin" THEN 2 ELSE 1

RECURSIVE UnitsOf(_)
UnitsOf(cs) == IF cs = <<>> THEN 0 ELSE Utf16Units(Head(cs)) + UnitsOf(Tail(cs))

\* Index of the last newline character among the first k characters, or 0.
LastNewline(cs, k) ==
    LET nls == {i \in 1..k : cs[i] = "\n"} IN IF nls = {} THEN 0 ELSE Max(nls)

\* C10: the column returned for an offset is the sum of the UTF-16 widths of
\* the characters between the start of the current line and the offset: a
\* character outside the BMP adds 2, a multi-byte character inside it adds
\* 1, and the column is 0 right after a newline.
C10_ColumnIsUtf16Width ==
    Answered =>
        \A k \in CharsBefore(chars, answer.offset) :
            /\ answer.out[2] = UnitsOf(SubSeq(chars, LastNewline(chars, k) + 1, k))
            /\ (k > 0 /\ chars[k] = "\n") => answer.out[2] = 0

C10_Witness ==
    /\ Answered
    /\ \E k \in CharsBefore(chars, answer.offset) :
          /\ k = 3 /\ chars[1] = "\n" /\ chars[2] = "grin" /\ chars[3] = "e_acute"
    /\ answer.out = <<1, 3>>

\* A query below the watermark of the accumulator it is given to.
C11_Rejected ==
    /\ answer'.offset < accum.last_offset
    /\ answer'.panic /\ answer'.out = <<>>
    /\ accum' = accum

\* A query at the watermark: the position the accumulator holds, again.
C11_Repeated ==
    /\ answer'.offset = accum.last_offset
    /\ ~answer'.panic
    /\ answer'.out = <<accum.line_num, accum.line_pos>>
    /\ accum' = accum

C11_Advanced == answer'.offset > accum.last_offset /\ ~answer'.panic

\* C11: an offset smaller than the watermark is rejected before any state is
\* touched: no position is returned and line, column and watermark keep
\* their values; an offset equal to the watermark is accepted and returns
\* the same position again.
C11_SmallerOffsetRejected ==
    [][C11_Rejected \/ C11_Repeated \/ C11_Advanced]_vars

C11_Witness ==
    /\ answer.panic /\ answer.out = <<>>
    /\ answer.offset < accum.last_offset
    /\ accum.line_num > 0 /\ accum.line_pos > 0

-----------------------------------------------------------------------------
(* Properties of the check pipeline *)

\* The matches come in ascending byte-offset order.
Ascending(typos) ==
    \A i \in 1..Len(typos), j \in 1..Len(typos) :
        i < j => typos[i].byte_offset <= typos[j].byte_offset

NonDecreasing(ns) == \A i \in 1..Len(ns), j \in 1..Len(ns) : i < j => ns[i] <= ns[j]

\* The indices of the matches the ignore filter drops, for a given policy.
Dropped(buf, policy, typos) ==
    {i \in 1..Len(typos) :
        is_ignored(IgnoresNew(buf, policy.ignore), TypoSpan(typos[i]))}

\* The position a fresh accumulator, asked nothing before, gives an offset.
FreshPosition(buf, byte_offset) ==
    <<CountNewlines(Slice(buf, 0, byte_offset)),
      LossyUtf16Len(Slice(buf, LineStart(buf, byte_offset), byte_offset))>>

\* C12: within one check whose match producer yields the matches in
\* ascending byte-offset order, the offsets given to the position accumulator
\* are non-decreasing whichever matches the ignore filter drops, so its
\* assertion never fails; and every check starts from a fresh accumulator
\* (line 0, column 0, watermark 0): the positions it reports are those of an
\* accumulator no other check or document has used.
C12_PipelineOffsetsAscend ==
    \A t \in Tasks :
        (Collected(t) /\ Ascending(local[t].typos)) =>
            LET res == local[t].res
            IN  /\ res.panic # "assert"
                /\ NonDecreasing(res.offsets)
                /\ \A k \in 1..Len(res.offsets) :
                      \E i \in 1..Len(local[t].typos) :
                          local[t].typos[i].byte_offset = res.offsets[k]
                /\ \A k \in 1..Len(res.diags) :
                      res.diags[k].range.start =
                          FreshPosition(local[t].buf, res.diags[k].byte_offset)

\* A second check of the document, after one that reached its end: its
\* first match is dropped and its second match, further on, is reported.
C12_Witness ==
    \E t \in Tasks :
        /\ Collected(t) /\ last.kind = "check_text" /\ last.result = "ok"
        /\ Len(local[t].typos) = 2 /\ Len(local[t].res.offsets) = 1
        /\ 1 \in Dropped(local[t].buf, local[t].res.wp.policy, local[t].typos)
        /\ Len(local[t].res.diags) = 1
        /\ local[t].res.diags[1].range.start # <<0, 0>>

\* An ignore query has been answered.
Asked == answer # NoAnswer /\ "ignored" \in DOMAIN answer

\* The two points of a span that are tested: its start and its end minus
\* one, the latter 0 for an end of 0.
TestedPoints(span) == {span.start, IF span.end = 0 THEN 0 ELSE span.end - 1}

PointInBlock(block, x) == block.start <= x /\ x < block.end

\* The matches of one regex in the document, leftmost first.
MatchesOf(buf, re) == FindIter(buf, re, 0)

\* C13: is_ignored(span) is true exactly when some ignore span contains
\* span.start or span.end - 1 (0 for an end of 0); the ignore spans are used
\* as collected, regex after regex, unmerged and unsorted, so a match whose
\* two tested points lie outside every ignore span is not ignored even when
\* it strictly contains an ignore span.
C13_IgnoredIffPointInBlock ==
    Asked =>
        /\ answer.ignored <=>
               \E i \in 1..Len(answer.blocks), x \in TestedPoints(answer.span) :
                   PointInBlock(answer.blocks[i], x)
        /\ \A i \in 1..Len(answer.blocks) :
               (/\ answer.span.start < answer.blocks[i].start
                /\ answer.blocks[i].end < answer.span.end
                /\ \A j \in 1..Len(answer.blocks), x \in TestedPoints(answer.span) :
                       ~PointInBlock(answer.blocks[j], x))
                   => ~answer.ignored
        /\ \E ignore \in IgnoreLists :
               /\ Len(answer.blocks) =
                      (IF Len(ignore) >= 1 THEN Len(MatchesOf(buffer, ignore[1])) ELSE 0)
                      + (IF Len(ignore) >= 2 THEN Len(MatchesOf(buffer, ignore[2])) ELSE 0)
               /\ \A k \in 1..Len(ignore) :
                      \A m \in 1..Len(MatchesOf(buffer, ignore[k])) :
                          \E i \in 1..Len(answer.blocks) :
                              answer.blocks[i] = MatchesOf(buffer, ignore[k])[m]

\* The span 0..4 of "aXYa" strictly contains the block 1..3 of X.*Y and is
\* not ignored.
C13_Witness ==
    /\ Asked /\ chars = NestedChars
    /\ answer.span = [start |-> 0, end |-> 4]
    /\ \E i \in 1..Len(answer.blocks) : answer.blocks[i] = [start |-> 1, end |-> 3]
    /\ ~answer.ignored

\* The ignore spans of the document a check runs on, under its policy.
BlocksOf(t) == IgnoresNew(local[t].buf, local[t].res.wp.policy.ignore)

\* The returned list holds a diagnostic for the match at this offset.
Reported(t, byte_offset) ==
    \E k \in 1..Len(local[t].res.diags) :
        local[t].res.diags[k].byte_offset = byte_offset

StartsInside(typo, blocks) ==
    \E i \in 1..Len(blocks) :
        blocks[i].start <= typo.byte_offset /\ typo.byte_offset < blocks[i].end

\* The match is non-empty and lies before or after each ignore span.
ClearOfBlocks(typo, blocks) ==
    /\ typo.len >= 1
    /\ \A i \in 1..Len(blocks) :
          \/ typo.byte_offset + typo.len <= blocks[i].start
          \/ blocks[i].end <= typo.byte_offset

\* C14: a match whose span start lies inside an ignore span of an ignore
\* pattern is suppressed and has no diagnostic; a non-empty match lying
\* entirely before or entirely after every ignore span is never suppressed:
\* the list the check returns holds its diagnostic, and when it is an
\* Accepted match it reaches the translation step, which fails.
C14_IgnoreSuppresses ==
    \A t \in Tasks :
        (Collected(t) /\ local[t].res.wp.some) =>
            \A i \in 1..Len(local[t].typos) :
                LET typo == local[t].typos[i]
                IN  /\ StartsInside(typo, BlocksOf(t))
                          => ~Reported(t, typo.byte_offset)
                    /\ ClearOfBlocks(typo, BlocksOf(t))
                          => /\ local[t].res.panic = "no"
                                    => Reported(t, typo.byte_offset)
                             /\ typo.status = "Valid" => local[t].res.panic = "valid"

\* A match starting strictly inside a span of X.*Y without a diagnostic,
\* and a match after the span with one.
C14_Witness ==
    \E t \in Tasks :
        /\ Collected(t) /\ local[t].res.panic = "no" /\ Len(local[t].typos) = 2
        /\ \E b \in 1..Len(BlocksOf(t)) :
              /\ BlocksOf(t)[b].start < local[t].typos[1].byte_offset
              /\ local[t].typos[1].byte_offset < BlocksOf(t)[b].end
        /\ ~Reported(t, local[t].typos[1].byte_offset)
        /\ ClearOfBlocks(local[t].typos[2], BlocksOf(t))
        /\ Reported(t, local[t].typos[2].byte_offset)

\* The producer yielded an Accepted (Valid) match that the ignore filter of
\* the check's policy does not drop.
SurvivingValid(t) ==
    /\ Collected(t) /\ local[t].res.wp.some
    /\ \E i \in 1..Len(local[t].typos) :
          /\ local[t].typos[i].status = "Valid"
          /\ i \notin Dropped(local[t].buf, local[t].res.wp.policy, local[t].typos)

\* Such a check ends in the panic of the translation step and holds no
\* list; a list that is held has no diagnostic of an Accepted match.
C15_ValidPanics ==
    \A t \in Tasks :
        /\ SurvivingValid(t)
              => local[t].res.panic = "valid" /\ local[t].res.diags = <<>>
        /\ (Collected(t) /\ local[t].res.panic = "no")
              => \A k \in 1..Len(local[t].res.diags) :
                    \E i \in 1..Len(local[t].typos) :
                        /\ local[t].typos[i].byte_offset =
                               local[t].res.diags[k].byte_offset
                        /\ local[t].typos[i].status # "Valid"

\* The handler of such a check ends without publishing a list.
C15_NothingPublished ==
    \A t \in Tasks :
        (SurvivingValid(t) /\ pc'[t] = "idle")
            => last' = [kind |-> "check_text", result |-> "panic"]

\* C15: an Accepted (Valid) outcome never appears in an emitted diagnostic
\* list: when the match producer yields one that survives the ignore filter,
\* the translation step fails loudly and no diagnostic list is returned or
\* published for that check; the match is neither dropped silently nor
\* turned into a diagnostic.
C15_AcceptedNeverEmitted == [](C15_ValidPanics) /\ [][C15_NothingPublished]_vars

\* The first match is translated, the second one is Accepted: the check
\* holds no list.
C15_Witness ==
    \E t \in Tasks :
        /\ SurvivingValid(t) /\ Len(local[t].typos) = 2
        /\ local[t].typos[1].status = "Corrections"
        /\ local[t].typos[2].status = "Valid"
        /\ local[t].res.offsets = <<local[t].typos[1].byte_offset,
                                    local[t].typos[2].byte_offset>>
        /\ local[t].res.panic = "valid" /\ local[t].res.diags = <<>>

\* The matches the ignore filter lets through, in the producer's order.
RECURSIVE Survivors(_, _)
Survivors(typos, blocks) ==
    IF typos = <<>> THEN <<>>
    ELSE (IF \E i \in 1..Len(blocks), x \in TestedPoints(TypoSpan(Head(typos))) :
                PointInBlock(blocks[i], x)
          THEN <<>> ELSE <<Head(typos)>>)
         \o Survivors(Tail(typos), blocks)

\* (line, column) order
PositionLeq(p, q) == p[1] < q[1] \/ (p[1] = q[1] /\ p[2] <= q[2])

\* C16: the check returns exactly one diagnostic for each match the ignore
\* filter does not drop, in the order in which the match producer yielded
\* the matches (ascending byte offset), so the start positions of the
\* returned diagnostics are non-decreasing in (line, column); a document
\* with zero matches yields the empty list under every policy.
C16_OneDiagnosticPerSurvivor ==
    \A t \in Tasks :
        (Collected(t) /\ local[t].res.wp.some) =>
            LET res == local[t].res
                kept == Survivors(local[t].typos, BlocksOf(t))
            IN  /\ local[t].typos = <<>> => (res.panic = "no" /\ res.diags = <<>>)
                /\ res.panic = "no" =>
                      /\ Len(res.diags) = Len(kept)
                      /\ \A k \in 1..Len(kept) :
                            /\ res.diags[k].byte_offset = kept[k].byte_offset
                            /\ res.diags[k].data = (kept[k].status = "Corrections")
                            /\ res.diags[k].message =
                                  (IF kept[k].status = "Invalid" THEN "is disallowed"
                                   ELSE "should be")
                      /\ \A j \in 1..Len(res.diags), k \in 1..Len(res.diags) :
                            j < k => PositionLeq(res.diags[j].range.start,
                                                 res.diags[k].range.start)

\* Two matches on two lines reported in order, under the policy of /a.
C16_Witness ==
    \E t \in Tasks :
        /\ Collected(t) /\ local[t].res.panic = "no"
        /\ local[t].res.wp.policy.ignore # <<>>
        /\ Len(local[t].typos) = 2 /\ Len(local[t].res.diags) = 2
        /\ local[t].res.diags[1].range.start = <<0, 0>>
        /\ local[t].res.diags[2].range.start = <<1, 0>>
        /\ local[t].res.diags[1].message = "is disallowed"
        /\ local[t].res.diags[2].message = "should be"

-----------------------------------------------------------------------------
(* Properties of the locking *)

Rebuilding(t) == pc[t] = "update_router"

\* A handler that is between taking the lock and returning holds the lock,
\* so at most one handler is.
C17_HandlersHoldTheLock ==
    /\ \A t \in Tasks : (Rebuilding(t) \/ Collected(t)) => mutex.holder = t
    /\ mutex.holder # NoTask => (Rebuilding(mutex.holder) \/ Collected(mutex.holder))
    /\ \A t \in Tasks, u \in Tasks :
          (t # u /\ (Rebuilding(t) \/ Collected(t))) => pc[u] = "idle"

\* A check reads the table and the severity, or a rebuild starts, only
\* when no rebuild is between discarding the old table and its last insert;
\* and what the check reads is the table as it stands.
C17_NoReadDuringRebuild ==
    \A t \in Tasks :
        /\ (~Collected(t) /\ Collected(t)')
              => /\ \A u \in Tasks : ~Rebuilding(u)
                 /\ router' = router /\ severity' = severity
                 /\ local'[t].res.wp.route \subseteq router
        /\ (~Rebuilding(t) /\ Rebuilding(t)')
              => \A u \in Tasks : ~Rebuilding(u) /\ ~Collected(u)

\* C17: resolve and rebuild are mutually exclusive under every interleaving
\* of concurrent handlers: no check reads the route table or the severity
\* while initialize or did_change_workspace_folders is between discarding
\* the old table and inserting its last route, and no two rebuilds overlap.
C17_MutualExclusion ==
    [](C17_HandlersHoldTheLock) /\ [][C17_NoReadDuringRebuild]_vars

\* A rebuild by one task has discarded a table that checks have read and
\* has inserted one route of two; the other task is kept out.
C17_Witness ==
    \E t \in Tasks :
        /\ Rebuilding(t) /\ mutex.holder = t
        /\ local[t].i = 2 /\ Len(workspace_folders) = 2
        /\ Cardinality(router) = 1 /\ Cardinality(router_at_call) >= 2
        /\ last.kind = "check_text"
        /\ ~ENABLED (\E u \in Tasks \ {t}, uri \in DocUris, typos \in ServerTypos :
                        CheckText(u, uri, typos))

-----------------------------------------------------------------------------
(* Properties of the rebuilt table *)

\* A check of a file path runs on the table a rebuild with an empty
\* workspace-folder list has left.
ChecksWithNoFolders(t) ==
    Collected(t) /\ workspace_folders = <<>> /\ CanConvert(local[t].uri)

\* C18 as stated: after a rebuild with an empty workspace-folder list every
\* absolute file path, the filesystem root path itself included, is resolved
\* by the router through the catch-all route to the catch-all Instance,
\* never ending in a no-route result.
C18_EmptyListResolvesAll ==
    \A t \in Tasks :
        ChecksWithNoFolders(t) =>
            /\ local[t].res.wp.route # {}
            /\ \A e \in local[t].res.wp.route :
                  e.route = CatchAllRoute /\ e.value.dir = RootDir

\* C18 as amended: after a rebuild with an empty workspace-folder list the
\* table holds at most the catch-all route; every absolute file path below
\* the root is resolved through it to the catch-all Instance when it is in
\* the table, while the root path itself matches no route (the catch-all
\* parameter takes at least one byte) and, like every path when the
\* catch-all Instance could not be built, ends in a no-route result that
\* falls back to the default policy.
C18_EmptyListResolvesAllButRoot ==
    \A t \in Tasks :
        ChecksWithNoFolders(t) =>
            LET res == local[t].res
            IN  /\ router = CatchAllEntries(router)
                /\ CatchAllEntries(router) # {} <=> ~InstanceNewFails(RootDir, config)
                /\ IF router # {} /\ ToFilePath(local[t].uri) # RootDir
                   THEN /\ res.wp.route = router
                        /\ \A e \in res.wp.route : e.value.dir = RootDir
                        /\ res.wp.consulted
                   ELSE /\ res.wp.route = {}
                        /\ res.wp.some /\ res.wp.policy = DefaultPolicy
                        /\ ~res.wp.consulted

\* The root path is checked while the catch-all route is in the table: no
\* route, default policy.
C18_Witness ==
    \E t \in Tasks :
        /\ ChecksWithNoFolders(t) /\ ToFilePath(local[t].uri) = RootDir
        /\ CatchAllEntries(router) # {}
        /\ local[t].res.wp.route = {}
        /\ local[t].res.wp.policy = DefaultPolicy
        /\ last.kind \in RebuildKinds /\ last.result = "ok"

\* The rebuild called last has inserted its last route, the catch-all.
LastRebuildSucceeded ==
    /\ initialized /\ NoRebuildRunning
    /\ \E e \in CatchAllEntries(router) : e.value.id = <<rebuilds, 0>>

ActiveRoutes == {FolderRoute(f) : f \in ActiveFolders} \cup {CatchAllRoute}

\* The directory the route table is expected to resolve a file path to: that
\* of the most specific active folder above it, or else the root.
ExpectedDir(uri) ==
    IF MostSpecific(uri) = {} THEN RootDir
    ELSE (CHOOSE f \in MostSpecific(uri) : TRUE).uri.path

\* After a successful rebuild the table holds one route per folder of the
\* active list plus the catch-all, every Instance made by this rebuild and
\* none taken from the table it replaced; a route the old table had for a
\* folder no longer in the list is gone, and a check resolves to the most
\* specific remaining folder or to the catch-all.
C19_TableIsFresh ==
    /\ (NoRebuildRunning /\ last.kind \in RebuildKinds
           /\ last.result \in {"ok", "err"})
          => (last.result = "ok" <=> LastRebuildSucceeded)
    /\ LastRebuildSucceeded =>
          /\ {e.route : e \in router} = ActiveRoutes
          /\ Cardinality(router) = Len(workspace_folders) + 1
          /\ \A e \in router :
                /\ e.value.id[1] = rebuilds
                /\ e.value.cfg = config
                /\ e.route = RouteOf(e.value.dir) \/ e.route = CatchAllRoute
                /\ \A o \in router_at_call : o.value.id # e.value.id
          /\ \A o \in router_at_call :
                o.route \notin ActiveRoutes
                    => \A uri \in DocUris :
                          \A e \in RouterAt(router, url_path_sanitised(uri)) :
                              e.route # o.route /\ e.value # o.value
          /\ \A t \in Tasks :
                (Collected(t) /\ CanConvert(local[t].uri)
                   /\ ToFilePath(local[t].uri) # RootDir)
                    => /\ local[t].res.wp.route # {}
                       /\ \A e \in local[t].res.wp.route :
                             e.value.dir = ExpectedDir(local[t].uri)

\* Whatever folders the next change notification removes, the list its
\* handler rebuilds from holds none of them and keeps the others in order.
C19_RemovedLeaveTheList ==
    (initialized /\ mutex.holder = NoTask) =>
        \A removed \in SUBSET FolderPool :
            LET fs == Retain(workspace_folders, removed)
            IN  /\ \A i \in 1..Len(fs) : fs[i] \notin removed
                /\ fs = SelectSeq(workspace_folders, LAMBDA f : f \notin removed)

\* C19: after a workspace-folder change notification removes a folder and
\* the rebuild succeeds, no path resolves to the removed folder's Instance
\* any more: paths under it resolve to the most specific remaining enclosing
\* folder or to the catch-all, and the new table holds exactly one freshly
\* constructed route per folder of the active list plus the catch-all, with
\* no Instance carried over from the old table.
C19_RemovedFolderUnrouted == C19_TableIsFresh /\ C19_RemovedLeaveTheList

\* file:///a/b was removed from [file:///a, file:///a/b]; a document under
\* it now resolves to the new Instance of file:///a.
C19_Witness ==
    \E t \in Tasks :
        /\ Collected(t) /\ local[t].uri = FileUri(<<"/", "a", "/", "b", "/", "d">>)
        /\ last = [kind |-> "did_change_workspace_folders", result |-> "ok"]
        /\ workspace_folders = <<FolderA>>
        /\ \E o \in router_at_call : o.route = FolderRoute(FolderAB)
        /\ \E o \in router_at_call : o.route = FolderRoute(FolderA)
        /\ \E e \in local[t].res.wp.route :
              /\ e.value.dir = FolderA.uri.path /\ e.value.id[1] = rebuilds
              /\ e \notin router_at_call

\* An Instance of the rebuild that task t runs is still to be constructed:
\* Instance::new, which loads the configuration, is the next thing it does.
LoadPending(t) == Rebuilding(t)

\* C20: the blocking configuration load made while constructing the
\* Instances of a rebuild is not done while holding the lock that document
\* checks need: a check of an unrelated document is blocked by a rebuild
\* only for the swap of the table, never for the loading.
C20_LoadNotUnderLock ==
    \A t \in Tasks :
        LoadPending(t) =>
            /\ mutex.holder # t
            /\ \E u \in Tasks \ {t} :
                  ENABLED CheckText(u, Uri("untitled", <<"Untitled-1">>), <<>>)

-----------------------------------------------------------------------------
(* Properties of the diagnostic range *)

\* The bytes of the matched text of a diagnostic's match.
MatchedText(buf, typo) == Slice(buf, typo.byte_offset, typo.byte_offset + typo.len)

AsciiOnly(bs) == \A i \in 1..Len(bs) : bs[i] < 128

\* The match a diagnostic of the list was made for.
MatchOf(t, k) ==
    CHOOSE typo \in {local[t].typos[i] : i \in 1..Len(local[t].typos)} :
        typo.byte_offset = local[t].res.diags[k].byte_offset

\* C21: each diagnostic's end position is the (line, UTF-16 column)
\* position of the end of the match: it lies on the line of the start
\* position and its column is the start column plus the number of UTF-16
\* code units of the matched text, also when the matched text has
\* characters of more than one byte in UTF-8.
C21_EndIsUtf16End ==
    \A t \in Tasks :
        (Collected(t) /\ local[t].res.panic = "no") =>
            \A k \in 1..Len(local[t].res.diags) :
                LET d == local[t].res.diags[k]
                    text == MatchedText(local[t].buf, MatchOf(t, k))
                IN  /\ d.range.end[1] = d.range.start[1]
                    /\ d.range.end[2] = d.range.start[2] + LossyUtf16Len(text)

\* The end position is right for a match of ASCII text, and is always on
\* the line of the start.
EndIsUtf16EndOfAscii ==
    \A t \in Tasks :
        (Collected(t) /\ local[t].res.panic = "no") =>
            \A k \in 1..Len(local[t].res.diags) :
                LET d == local[t].res.diags[k]
                    text == MatchedText(local[t].buf, MatchOf(t, k))
                IN  /\ d.range.end[1] = d.range.start[1]
                    /\ d.range.end[2] = d.range.start[2] + Len(text)
                    /\ AsciiOnly(text)
                          => d.range.end[2] = d.range.start[2] + LossyUtf16Len(text)

-----------------------------------------------------------------------------
(* Properties of workspace-folder changes *)

\* The directories a table resolves a document to (none without a route).
ResolvedDirs(r, uri) ==
    IF ~CanConvert(uri) THEN {}
    ELSE {e.value.dir : e \in RouterAt(r, url_path_sanitised(uri))}

\* A change notification has just been handled whose added folder, last in
\* the list, has the location of a folder already in the list; every folder
\* of the list is valid and the table before the notification was complete.
DuplicateAdded ==
    /\ NoRebuildRunning
    /\ last.kind = "did_change_workspace_folders" /\ last.result \in {"ok", "err"}
    /\ Len(workspace_folders) >= 2
    /\ \E i \in 1..(Len(workspace_folders) - 1) :
          workspace_folders[i].uri = workspace_folders[Len(workspace_folders)].uri
    /\ FailingFolders = {} /\ ~InstanceNewFails(RootDir, config)
    /\ CatchAllEntries(router_at_call) # {}

\* C22: adding, through a workspace-folder change notification, a folder
\* whose location is already in the active set is harmless: the rebuild
\* succeeds and every path resolves to the same folder's policy as before
\* the notification, with the catch-all route still present.
C22_DuplicateAddHarmless ==
    DuplicateAdded =>
        /\ last.result = "ok"
        /\ CatchAllEntries(router) # {}
        /\ \A uri \in DocUris :
              ResolvedDirs(router, uri) = ResolvedDirs(router_at_call, uri)

\* What the code does instead: the second insert of the route fails, the
\* rebuild stops there and the table is left without the catch-all.
DuplicateAddFailsRebuild ==
    DuplicateAdded => (last.result = "err" /\ CatchAllEntries(router) = {})

\* A rebuild has just ended.
RebuildEnded ==
    NoRebuildRunning /\ last.kind \in RebuildKinds /\ last.result \in {"ok", "err"}

\* A change notification has just been handled after a rebuild that failed
\* at the first folder of its list, and the list now holds valid folders
\* only: the notification has removed the folder the rebuild failed at.
FailingFolderRemoved ==
    /\ RebuildEnded /\ last.kind = "did_change_workspace_folders"
    /\ rebuilds >= 2 /\ router_at_call = {}
    /\ FailingFolders = {} /\ ~InstanceNewFails(RootDir, config)

NoDuplicateFolders ==
    \A i \in 1..Len(workspace_folders), j \in 1..Len(workspace_folders) :
        i # j => workspace_folders[i].uri # workspace_folders[j].uri

\* The table holds one route for each folder of the list plus the catch-all.
TableComplete ==
    /\ {e.route : e \in router} = ActiveRoutes
    /\ Cardinality(router) = Len(workspace_folders) + 1

\* The routes of the folders listed before index i.
RoutesBefore(i) == {FolderRoute(workspace_folders[k]) : k \in 1..(i - 1)}

\* While a failing folder is in the list every rebuild fails, at the first
\* such folder or before it, and leaves no catch-all.
C23_FailsWhileListed ==
    (RebuildEnded /\ FailingFolders # {}) =>
        /\ last.result = "err"
        /\ CatchAllEntries(router) = {}
        /\ \E i \in FailingFolders :
              /\ \A k \in FailingFolders : i <= k
              /\ {e.route : e \in router} \subseteq RoutesBefore(i)
              /\ NoDuplicateFolders => {e.route : e \in router} = RoutesBefore(i)

\* C23: if a rebuild fails because of one folder of the active list, the
\* failure does no lasting damage: once a later workspace-folder change
\* notification removes that folder and all remaining folders are valid, the
\* rebuild succeeds and the table again holds one route for each remaining
\* folder plus the catch-all; until then every rebuild triggered by any
\* notification fails at the same folder.
C23_FailureIsRecoverable ==
    /\ C23_FailsWhileListed
    /\ FailingFolderRemoved => (last.result = "ok" /\ TableComplete)

\* The recovery as far as the code provides it: it needs the remaining
\* folders to be distinct as well.
RecoveryWithDistinctFolders ==
    /\ C23_FailsWhileListed
    /\ (FailingFolderRemoved /\ NoDuplicateFolders)
          => (last.result = "ok" /\ TableComplete)
    /\ (FailingFolderRemoved /\ ~NoDuplicateFolders)
          => (last.result = "err" /\ CatchAllEntries(router) = {})

\* A rebuild recovered after the failing folder was removed.
RecoveredAfterRemoval ==
    FailingFolderRemoved /\ NoDuplicateFolders /\ Len(workspace_folders) >= 1
    /\ last.result = "ok"

\* The same removal with a folder left twice in the list.
RemovalLeftDuplicate == FailingFolderRemoved /\ ~NoDuplicateFolders

-----------------------------------------------------------------------------
(* Properties of route matching *)

\* The paths whose resolution is examined: those of the documents checked,
\* a nested folder's own path and a sibling whose name extends a folder's.
ProbeUris ==
    DocUris \cup {FileUri(<<"/", "a", "/", "b">>), FileUri(<<"/", "a", "b">>)}

\* The folders of the pool that have a file path, the only ones a table can
\* hold a route for.
FileFolders == {f \in FolderPool : CanConvert(f.uri)}

\* The table has a route entry for the folder.
Routed(r, f) == \E e \in r : e.value.dir = f.uri.path /\ e.route # CatchAllRoute

\* The route entry belongs to a folder the path lies strictly below.
EntryEncloses(e, uri) ==
    \E f \in FileFolders :
        /\ e.value.dir = f.uri.path /\ Under(uri, f)
        /\ e.route = FolderRoute(f)

\* What the table may resolve a file path to: nothing, the catch-all, or a
\* folder the path lies strictly below, the innermost one the table has a
\* route for.
ResolvesBySegments(found, r, uri) ==
    \A e \in found :
        IF e.route = CatchAllRoute
        THEN /\ e.value.dir = RootDir
             /\ \A f \in FileFolders : Routed(r, f) => ~Under(uri, f)
        ELSE /\ EntryEncloses(e, uri)
             /\ \A f \in FileFolders :
                   (Under(uri, f) /\ Routed(r, f))
                       => Len(f.uri.path) <= Len(e.value.dir)

\* A folder of the table that the path is not strictly below, such as /a
\* for /ab/d or for /a itself, is never what the path resolves to.
NeverToAFolderBeside(found, r, uri) ==
    \A f \in FileFolders :
        (HasRoute(r, f) /\ ~Under(uri, f))
            => \A e \in found :
                  e.route # FolderRoute(f) /\ e.value.dir # f.uri.path

\* Matching is by whole segments: whatever the table holds, a file path
\* resolves to nothing, to the catch-all, or to the innermost routed folder
\* it lies strictly below, never to a folder beside it; it resolves to
\* nothing only when it is the root path or the table has no catch-all.
SegmentsNotPrefixes ==
    /\ \A uri \in ProbeUris :
          CanConvert(uri) =>
              LET found == RouterAt(router, url_path_sanitised(uri))
              IN  /\ ResolvesBySegments(found, router, uri)
                  /\ (found = {} /\ ToFilePath(uri) # RootDir)
                        => CatchAllEntries(router) = {}
    /\ \A t \in Tasks :
          (Collected(t) /\ CanConvert(local[t].uri)) =>
              LET found == local[t].res.wp.route
              IN  /\ local[t].uri \in ProbeUris
                  /\ found = RouterAt(router, url_path_sanitised(local[t].uri))
                  /\ NeverToAFolderBeside(found, router, local[t].uri)

\* A check of a path that is not strictly below an active folder the table
\* has a route for, such as /ab/d or /a with /a active.
ChecksBeside(t) ==
    /\ Collected(t) /\ CanConvert(local[t].uri)
    /\ ToFilePath(local[t].uri) # RootDir
    /\ \E f \in ActiveFolders :
          CanConvert(f.uri) /\ HasRoute(router, f) /\ ~Under(local[t].uri, f)

\* C24: routing matches whole path segments, not string prefixes: with
\* folder /a active, only paths strictly below /a/ resolve to /a's Instance;
\* a document at /ab/x, or at the path /a itself, resolves to the next
\* enclosing active folder or to the catch-all and never to /a's policy.
C24_WholeSegments ==
    /\ SegmentsNotPrefixes
    /\ \A t \in Tasks :
          ChecksBeside(t) =>
              /\ local[t].res.wp.route # {}
              /\ \A e \in local[t].res.wp.route :
                    e.route = CatchAllRoute \/ EntryEncloses(e, local[t].uri)

\* With /a active and the table complete, a check of /ab/d or of /a has
\* resolved to the catch-all.
ResolvedBesideToCatchAll ==
    \E t \in Tasks :
        /\ Collected(t) /\ HasRoute(router, FolderA) /\ FolderA \in ActiveFolders
        /\ local[t].uri \in {FileUri(<<"/", "a", "b", "/", "d">>), FileUri(<<"/", "a">>)}
        /\ CatchAllEntries(router) # {}
        /\ local[t].res.wp.route = CatchAllEntries(router)

\* With /a and /a/b active, the path /a/b itself resolves to /a while a
\* document below /a/b resolves to /a/b.
NestedFolderPathResolvesToOuter ==
    /\ HasRoute(router, FolderA) /\ HasRoute(router, FolderAB)
    /\ \A e \in RouterAt(router, <<"/", "a", "/", "b">>) :
          e.value.dir = FolderA.uri.path
    /\ RouterAt(router, <<"/", "a", "/", "b">>) # {}
    /\ \E t \in Tasks :
          /\ Collected(t) /\ local[t].uri = FileUri(<<"/", "a", "/", "b", "/", "d">>)
          /\ \A e \in local[t].res.wp.route : e.value.dir = FolderAB.uri.path

=============================================================================
